---- MODULE Spec2Model ----
(***************************************************************************)
(* The transcription decoding controller of voice_search_server            *)
(* (src/src/transcription.rs): Decoder::decode, Decoder::decode_with_      *)
(* fallback and Decoder::run, as one state machine.                        *)
(*                                                                         *)
(* Numbers.  An f64 is a record [k, n, d]: k = "nan" is NaN, k = "rat" is  *)
(* the rational n / d (d > 0).  Log-probabilities are in hundredths of a   *)
(* nat.  Logits are integer multiples of ln 2, so that exp(logit) is the   *)
(* integer 2^logit; f32::NEG_INFINITY is the value NegInf.                 *)
(***************************************************************************)
EXTENDS Integers, Sequences, FiniteSets, TLC

(* ----------------------------- bounds -------------------------------- *)

\* Largest number of frames (third dimension of mel) given to run in Spec.
MaxContentFrames == 3

\* Largest number of messages that arrive on a websocket connection.
MaxMessages == 3

\* N_FRAMES of candle's whisper module is 3000; the window is scaled down.
N_FRAMES == 2

\* Largest config.max_target_positions of the single-window specification.
MaxTargetPositions == 7

(* ------------------------ program constants --------------------------- *)

HOP_LENGTH == 160

SAMPLE_RATE == 16000

\* [0.0, 0.2, 0.4, 0.6, 0.8, 1.0], in tenths.
TEMPERATURES == <<0, 2, 4, 6, 8, 10>>

NaN == [k |-> "nan", n |-> 0, d |-> 1]

\* f64 negative infinity (the logarithm of a zero probability).
NInf == [k |-> "ninf", n |-> 0, d |-> 1]

Rat(n, d) == [k |-> "rat", n |-> n, d |-> d]

COMPRESSION_RATIO_THRESHOLD == Rat(24, 10)

LOGPROB_THRESHOLD == Rat(-1, 1)

NO_SPEECH_THRESHOLD == Rat(6, 10)

\* config.vocab_size: the model's logits range over the ids 0 .. VocabSize-1.
VocabSize == 4

Vocab == 0 .. (VocabSize - 1)

\* Ids the tokenizer gives the control tokens (Decoder fields); the ids
\* below eot_token are ordinary words.
eot_token == 2

no_speech_token == 3

sot_token == 4

transcribe_token == 5

no_timestamps_token == 6

LANG_TOKEN == 7

None == -1

SpecialIds == {eot_token, no_speech_token, sot_token, transcribe_token,
               no_timestamps_token, LANG_TOKEN}

NegInf == -1000

(* ------------------------------ f64 ----------------------------------- *)

\* a < b on f64: false as soon as one side is NaN.
FLt(a, b) ==
    \/ a.k = "rat" /\ b.k = "rat" /\ a.n * b.d < b.n * a.d
    \/ a.k = "ninf" /\ b.k = "rat"

\* a > b on f64: false as soon as one side is NaN.
FGt(a, b) == FLt(b, a)

\* a / len for a positive integer len.
FDiv(a, len) == IF a.k = "rat" THEN Rat(a.n, a.d * len) ELSE a

\* a + b on f64, for a and b in hundredths (denominator 100); b is never
\* positive infinity here, so an infinite operand gives negative infinity.
FAdd(a, b) ==
    IF a.k = "nan" \/ b.k = "nan" THEN NaN
    ELSE IF a.k = "ninf" \/ b.k = "ninf" THEN NInf
    ELSE Rat(a.n + b.n, 100)

RECURSIVE Pow2(_)
Pow2(e) == IF e <= 0 THEN 1 ELSE 2 * Pow2(e - 1)

RECURSIVE Log2Floor(_)
Log2Floor(n) == IF n <= 1 THEN 0 ELSE 1 + Log2Floor(n \div 2)

\* 100 * ln(n) for an integer n >= 1, in fixed point: exact at the powers
\* of two (ln 2 = 0.69) and linear between two of them.
LnCenti(n) ==
    LET e == Log2Floor(n)
    IN  69 * e + ((n - Pow2(e)) * 69) \div Pow2(e)

\* FLn with the sign lost: the logarithm of d / n.
FLnNegated(p) ==
    IF p.k # "rat" THEN NaN
    ELSE IF p.n = 0 THEN NInf
    ELSE Rat(LnCenti(p.d) - LnCenti(p.n), 100)

\* f64::ln of a probability p = n / d with 0 <= n <= d.
FLn(p) ==
    IF p.k # "rat" THEN NaN
    ELSE IF p.n = 0 THEN NInf
    ELSE Rat(LnCenti(p.n) - LnCenti(p.d), 100)

(* ------------------------- tensors over Vocab ------------------------- *)

Min(a, b) == IF a <= b THEN a ELSE b

RECURSIVE SumUpTo(_, _)
\* w[0] + ... + w[k]
SumUpTo(w, k) == IF k < 0 THEN 0 ELSE w[k] + SumUpTo(w, k - 1)

Total(w) == SumUpTo(w, VocabSize - 1)

\* Logits the external model may return for one position: one id far more
\* likely than the rest (2^12 to 1), or the two lowest ids equally likely.
HighLogit == 12

Peak(p) == [v \in Vocab |-> IF v = p THEN HighLogit ELSE 0]

TwoPeaks == [v \in Vocab |-> IF v <= 1 THEN HighLogit ELSE 0]

ModelLogits == {Peak(p) : p \in Vocab} \cup {TwoPeaks}

\* Logits of the first position, read for the no-speech probability only:
\* a window the model hears speech in, and one it hears none in.
FirstLogits == {Peak(0), Peak(no_speech_token)}

\* Decoder::new: the suppress_tokens tensor.
SuppressTensor(suppress) == [v \in Vocab |-> IF v \in suppress THEN NegInf ELSE 0]

AddLogit(a, b) == IF a = NegInf \/ b = NegInf THEN NegInf ELSE a + b

\* BroadcastAdd with the sum dropped: the raw logits are used.
BroadcastAddLeft(l, m) == l

BroadcastAdd(l, m) == [v \in Vocab |-> AddLogit(l[v], m[v])]

\* exp of a logit.
ExpW(l) == IF l = NegInf THEN 0 ELSE Pow2(l)

\* softmax(logits)[id] as an f64: NaN when every logit is -inf.
Softmax(logits, id) ==
    LET w == [v \in Vocab |-> ExpW(logits[v])]
    IN  IF Total(w) = 0 THEN NaN ELSE Rat(w[id], Total(w))

\* ArgMax keeping the first of the maximal elements.
ArgMaxFirst(logits) ==
    CHOOSE i \in Vocab :
        \A j \in Vocab : /\ logits[j] <= logits[i]
                          /\ (j < i => logits[j] < logits[i])

\* Iterator::max_by with total_cmp: the last of the maximal elements.
ArgMax(logits) ==
    CHOOSE i \in Vocab :
        \A j \in Vocab : /\ logits[j] <= logits[i]
                          /\ (j > i => logits[j] < logits[i])

MaxLogit(logits) == logits[ArgMax(logits)]

\* Fixed-point one of the sampling weights (2^24).
WeightUnit == 16777216

\* WeightUnit / 2^e, which is below one unit from e = 25 on.
Scaled(e) == IF e > 24 THEN 0 ELSE WeightUnit \div Pow2(e)

\* softmax(logits / t) for t = t10 / 10 > 0, in units of 1 / WeightUnit
\* relative to the largest entry; an entry below one unit underflows to 0.
TempWeights(logits, t10) ==
    [v \in Vocab |->
        IF logits[v] = NegInf THEN 0
        ELSE Scaled(((MaxLogit(logits) - logits[v]) * 10) \div t10)]

\* rand::rngs::StdRng as a linear congruential generator.
RngModulus == 8

seed == 0

NextRng(s) == (5 * s + 3) % RngModulus

\* WeightedIndex::sample: the uniform draw r / RngModulus of [0, 1) scaled
\* to the total weight selects the first index whose cumulative weight
\* exceeds it.
Pick(w, r) ==
    CHOOSE i \in Vocab :
        /\ SumUpTo(w, i) * RngModulus > r * Total(w)
        /\ \A j \in Vocab : j < i => SumUpTo(w, j) * RngModulus <= r * Total(w)

\* Tokenizer::decode(tokens, skip_special_tokens = true).
TokenizerDecode(tokens) == SelectSeq(tokens, LAMBDA id : id \notin SpecialIds)

(* ------------------------------ state --------------------------------- *)

VARIABLES
    max_target_positions,  \* model.config.max_target_positions
    language_token,        \* Decoder.language_token: None or an id
    suppress_tokens,       \* model.config.suppress_tokens
    content_frames,        \* run: third dimension of mel
    tokenizer,             \* Tokenizer::token_to_id: the id of each name
    decoder,               \* the Result of Decoder::new
    model,                 \* the logits the external model may return for
                           \* the last position
    first_logits,          \* and those it may return for the first position
    rng,                   \* Decoder.rng
    pc,                    \* position of the control flow
    seek,                  \* run: the cursor
    segments,              \* run: the Segment list
    windows,               \* the windows handed to decode_with_fallback so far
    ti,                    \* decode_with_fallback: position in TEMPERATURES
    calls,                 \* the calls of decode for this window, each with
                           \* its position in TEMPERATURES and its outcome
    dr,                    \* the Result of decode / decode_with_fallback
    tokens,                \* decode: tokens
    sum_logprob,           \* decode: sum_logprob
    no_speech_prob,        \* decode: no_speech_prob
    logits,                \* decode: logits, after broadcast_add
    step,                  \* decode: i
    stopped,               \* decode: the loop was left by break
    rng0,                  \* the state of Decoder.rng when decode was entered
    stream,                \* websocket_server: the messages yet to arrive
    task,                  \* websocket_server: the state of the spawned task
    handled,               \* the messages the task has taken from stream
    session                \* the text frames sent with session.text

cfgVars == <<max_target_positions, language_token, suppress_tokens,
             content_frames, tokenizer, decoder, model, first_logits>>

runVars == <<seek, segments, windows>>

decVars == <<tokens, sum_logprob, no_speech_prob, logits, step, stopped,
             rng0>>

wsVars == <<stream, task, handled, session>>

vars == <<cfgVars, rng, pc, runVars, ti, calls, dr, decVars, wsVars>>

Ok(v) == [ok |-> TRUE, val |-> v]

\* A failure and where it happened: decode at position t of TEMPERATURES,
\* or the lookup of the token named t.
Err(cause, t) == [ok |-> FALSE, val |-> [cause |-> cause, t |-> t]]

NoResult == Err("none", 0)

\* The two quality gates and the no-speech verdict of a result, read off
\* its metrics.
PoorMetrics(r) ==
    \/ FGt(r.compression_ratio, COMPRESSION_RATIO_THRESHOLD)
    \/ FLt(r.avg_logprob, LOGPROB_THRESHOLD)

ConfidentSilence(r) == FGt(r.no_speech_prob, NO_SPEECH_THRESHOLD)

\* A call of decode that has not returned yet.
Call(t) == [t |-> t, done |-> FALSE, ok |-> FALSE, poor |-> FALSE,
            silent |-> FALSE]

\* The last call of the log has returned res: whether it is a result, and
\* what its metrics say.
Returned(log, res) ==
    [log EXCEPT ![Len(log)] =
        [t |-> @.t, done |-> TRUE, ok |-> res.ok,
         poor |-> res.ok /\ PoorMetrics(res.val),
         silent |-> res.ok /\ ConfidentSilence(res.val)]]

(* ---------------------------- Decoder::new ----------------------------- *)

SOT_TOKEN == "<|startoftranscript|>"

TRANSCRIBE_TOKEN == "<|transcribe|>"

EOT_TOKEN == "<|endoftext|>"

NO_TIMESTAMPS_TOKEN == "<|notimestamps|>"

NO_SPEECH_TOKENS == <<"<|nocaptions|>", "<|nospeech|>">>

TokenNames == {SOT_TOKEN, TRANSCRIBE_TOKEN, EOT_TOKEN, NO_TIMESTAMPS_TOKEN,
               NO_SPEECH_TOKENS[1], NO_SPEECH_TOKENS[2]}

\* The id of <|nospeech|> in a tokenizer that has it next to <|nocaptions|>.
NOSPEECH_ID == 8

\* The id a tokenizer that has the name gives it.
IdOf(name) ==
    CASE name = SOT_TOKEN -> sot_token
      [] name = TRANSCRIBE_TOKEN -> transcribe_token
      [] name = EOT_TOKEN -> eot_token
      [] name = NO_TIMESTAMPS_TOKEN -> no_timestamps_token
      [] name = NO_SPEECH_TOKENS[1] -> no_speech_token
      [] name = NO_SPEECH_TOKENS[2] -> NOSPEECH_ID

\* The tokenizers: each name has its id or none.
Tokenizers == {tk \in [TokenNames -> {None} \cup {IdOf(n) : n \in TokenNames}] :
                  \A n \in TokenNames : tk[n] \in {None, IdOf(n)}}

\* The tokenizer of the model files: every name but <|nospeech|>.
WhisperTokenizer ==
    [n \in TokenNames |-> IF n = NO_SPEECH_TOKENS[2] THEN None ELSE IdOf(n)]

\* token_id(tokenizer, token)
token_id(tk, token) ==
    IF tk[token] = None THEN Err("no token-id for", token) ELSE Ok(tk[token])

\* FindNoSpeech taking the last candidate that resolves.
FindNoSpeechLast(tk) ==
    LET found == {i \in 1 .. Len(NO_SPEECH_TOKENS) :
                     token_id(tk, NO_SPEECH_TOKENS[i]).ok}
    IN  IF found = {} THEN None
        ELSE tk[NO_SPEECH_TOKENS[CHOOSE i \in found : \A j \in found : j <= i]]

\* NO_SPEECH_TOKENS.iter().find_map(|token| token_id(&tokenizer, token).ok())
FindNoSpeech(tk) ==
    LET found == {i \in 1 .. Len(NO_SPEECH_TOKENS) :
                     token_id(tk, NO_SPEECH_TOKENS[i]).ok}
    IN  IF found = {} THEN None
        ELSE tk[NO_SPEECH_TOKENS[CHOOSE i \in found : \A j \in found : i <= j]]

\* Decoder::new(model, tokenizer, seed, device, language_token), the tensor
\* of suppress_tokens being built on the device or not.
New(tk, tensor_ok, sd, lang) ==
    IF ~token_id(tk, NO_TIMESTAMPS_TOKEN).ok
    THEN token_id(tk, NO_TIMESTAMPS_TOKEN)
    ELSE IF ~tensor_ok THEN Err("Tensor::new", "suppress_tokens")
    ELSE IF ~token_id(tk, SOT_TOKEN).ok THEN token_id(tk, SOT_TOKEN)
    ELSE IF ~token_id(tk, TRANSCRIBE_TOKEN).ok
    THEN token_id(tk, TRANSCRIBE_TOKEN)
    ELSE IF ~token_id(tk, EOT_TOKEN).ok THEN token_id(tk, EOT_TOKEN)
    ELSE IF FindNoSpeech(tk) = None
    THEN Err("unable to find any non-speech token", None)
    ELSE Ok([rng |-> sd,
             sot_token |-> tk[SOT_TOKEN],
             transcribe_token |-> tk[TRANSCRIBE_TOKEN],
             eot_token |-> tk[EOT_TOKEN],
             no_speech_token |-> FindNoSpeech(tk),
             language_token |-> lang,
             no_timestamps_token |-> tk[NO_TIMESTAMPS_TOKEN]])

\* transcribe calls Decoder::new, which returns a Decoder or a failure.
DecoderNew ==
    /\ pc = "new"
    /\ \E tensor_ok \in BOOLEAN :
          decoder' = New(tokenizer, tensor_ok, seed, language_token)
    /\ pc' = IF decoder'.ok THEN "built" ELSE "new_failed"
    /\ rng' = IF decoder'.ok THEN decoder'.val.rng ELSE rng
    /\ UNCHANGED <<wsVars, max_target_positions, language_token,
                   suppress_tokens, content_frames, tokenizer, model,
                   first_logits, runVars, ti, calls, dr, decVars>>

(* ------------------------------ decode --------------------------------- *)

\* The value of logits while no iteration has assigned it.
NoLogits == [v \in Vocab |-> 0]

sample_len == max_target_positions \div 2

PromptPrefix ==
    <<sot_token>>
    \o (IF language_token = None THEN <<>> ELSE <<language_token>>)
    \o <<transcribe_token, no_timestamps_token>>

\* Entry of decode: the locals before the loop.
DecodeEnter ==
    /\ tokens' = PromptPrefix
    /\ sum_logprob' = Rat(0, 100)
    /\ no_speech_prob' = NaN
    /\ logits' = NoLogits
    /\ step' = 0
    /\ stopped' = FALSE
    /\ rng0' = rng

\* The locals of decode once it has returned.
DecodeLeave ==
    /\ tokens' = <<>>
    /\ sum_logprob' = Rat(0, 100)
    /\ no_speech_prob' = NaN
    /\ logits' = NoLogits
    /\ step' = 0
    /\ stopped' = FALSE
    /\ rng0' = rng

\* WeightedIndex::new succeeds: some weight is positive.
CanSample(masked, t10) == Total(TempWeights(masked, t10)) > 0

\* SelectToken with the argmax replaced by a draw from softmax(logits).
SelectTokenDrawn(masked, t10, drawn) ==
    Pick(TempWeights(masked, IF t10 > 0 THEN t10 ELSE 10), drawn)

\* next_token: a draw from softmax(logits / t) when t > 0, the argmax
\* otherwise.
SelectToken(masked, t10, drawn) ==
    IF t10 > 0 THEN Pick(TempWeights(masked, t10), drawn)
    ELSE ArgMax(masked)

\* RngAfter for a draw made from a copy of the generator.
RngAfterCopy(t10, s) == s

\* RngAfter with a draw made in every iteration, used or not.
RngAfterAlways(t10, s) == NextRng(s)

\* Decoder.rng after an iteration at temperature t: a draw is made, and
\* the generator moves on, only when t > 0.
RngAfter(t10, s) == IF t10 > 0 THEN NextRng(s) ELSE s

\* StopAfter without the test for end-of-transcript.
StopAfterLengthOnly(next_token, toks) == Len(toks) > max_target_positions

\* The stop test after a token was pushed.
StopAfter(next_token, toks) ==
    next_token = eot_token \/ Len(toks) > max_target_positions

\* One iteration of the loop of decode, the model returning `first` for the
\* first position and `last` for the last one.
DecodeStep ==
    /\ pc = "decode" /\ ~stopped /\ step < sample_len
    /\ \E last \in model :
       \E first \in (IF step = 0 THEN first_logits ELSE {last}) :
          LET t10 == TEMPERATURES[ti]
              masked == BroadcastAdd(last, SuppressTensor(suppress_tokens))
              drawn == NextRng(rng)
              next_token == SelectToken(masked, t10, drawn)
              prob == Softmax(masked, next_token)
              pushed == Append(tokens, next_token)
          IN  /\ t10 > 0 => CanSample(masked, t10)
              /\ rng' = RngAfter(t10, rng)
              /\ no_speech_prob' = IF step = 0 THEN Softmax(first, no_speech_token)
                                    ELSE no_speech_prob
              /\ logits' = masked
              /\ tokens' = pushed
              /\ IF StopAfter(next_token, pushed)
                 THEN stopped' = TRUE /\ UNCHANGED <<sum_logprob, step>>
                 ELSE /\ sum_logprob' = FAdd(sum_logprob, FLn(prob))
                      /\ step' = step + 1
                      /\ stopped' = FALSE
    /\ UNCHANGED <<wsVars, cfgVars, pc, runVars, ti, calls, dr, rng0>>

\* DecodingResult with a compression ratio computed from the tokens.
DecodingResultComputed ==
    [tokens |-> tokens,
     text |-> TokenizerDecode(tokens),
     avg_logprob |-> FDiv(sum_logprob, Len(tokens)),
     no_speech_prob |-> no_speech_prob,
     temperature |-> TEMPERATURES[ti],
     compression_ratio |-> Rat(Len(tokens), 1)]

DecodingResult ==
    [tokens |-> tokens,
     text |-> TokenizerDecode(tokens),
     avg_logprob |-> FDiv(sum_logprob, Len(tokens)),
     no_speech_prob |-> no_speech_prob,
     temperature |-> TEMPERATURES[ti],
     compression_ratio |-> NaN]

\* decode returns Ok: the loop is over.
DecodeReturn ==
    /\ pc = "decode" /\ (stopped \/ step >= sample_len)
    /\ dr' = Ok(DecodingResult)
    /\ calls' = Returned(calls, dr')
    /\ pc' = "attempt"
    /\ DecodeLeave
    /\ UNCHANGED <<wsVars, cfgVars, rng, runVars, ti>>

\* decode returns Err: a call of the model, of the tokenizer or of
\* WeightedIndex::new failed.
DecodeErr ==
    /\ pc = "decode"
    /\ dr' = Err("decode", ti)
    /\ calls' = Returned(calls, dr')
    /\ pc' = "attempt"
    /\ DecodeLeave
    /\ UNCHANGED <<wsVars, cfgVars, rng, runVars, ti>>

(* ------------------------ decode_with_fallback ------------------------- *)

\* IsLast one too far: i == TEMPERATURES.len().
IsLastOffByOne(i) == i = Len(TEMPERATURES) + 1

\* i == TEMPERATURES.len() - 1, for the position i (counted from 1).
IsLast(i) == i = Len(TEMPERATURES)

NeedsFallback(r) ==
    \/ FGt(r.compression_ratio, COMPRESSION_RATIO_THRESHOLD)
    \/ FLt(r.avg_logprob, LOGPROB_THRESHOLD)

\* Accepts without the no-speech short-circuit.
AcceptsGatesOnly(r) == ~NeedsFallback(r)

\* The test under which a result of a temperature other than the last is
\* returned.
Accepts(r) == ~NeedsFallback(r) \/ FGt(r.no_speech_prob, NO_SPEECH_THRESHOLD)

\* FallbackLast without the early return of the last temperature: the
\* result goes through the test and the loop ends.
FallbackLastGated ==
    /\ pc = "attempt" /\ IsLast(ti)
    /\ pc' = IF dr.ok /\ Accepts(dr.val) THEN "returned" ELSE "unreachable"
    /\ UNCHANGED <<wsVars, cfgVars, rng, runVars, ti, calls, dr, decVars>>

\* The last temperature: the Result of decode is returned as it is.
FallbackLast ==
    /\ pc = "attempt" /\ IsLast(ti)
    /\ pc' = "returned"
    /\ UNCHANGED <<wsVars, cfgVars, rng, runVars, ti, calls, dr, decVars>>

\* FallbackAccept without its return: the loop goes on.
FallbackAcceptGoesOn ==
    /\ pc = "attempt" /\ ~IsLast(ti)
    /\ dr.ok /\ Accepts(dr.val)
    /\ ti' = ti + 1
    /\ calls' = Append(calls, Call(ti + 1))
    /\ dr' = NoResult
    /\ DecodeEnter
    /\ pc' = "decode"
    /\ UNCHANGED <<wsVars, cfgVars, rng, runVars>>

\* Another temperature, and a result that passes the test: it is returned.
FallbackAccept ==
    /\ pc = "attempt" /\ ~IsLast(ti)
    /\ dr.ok /\ Accepts(dr.val)
    /\ pc' = "returned"
    /\ UNCHANGED <<wsVars, cfgVars, rng, runVars, ti, calls, dr, decVars>>

\* FallbackNext returning the error of decode instead of going on.
FallbackNextReturnsErr ==
    /\ pc = "attempt" /\ ~IsLast(ti)
    /\ ~(dr.ok /\ Accepts(dr.val))
    /\ IF dr.ok
       THEN /\ ti' = ti + 1
            /\ calls' = Append(calls, Call(ti + 1))
            /\ dr' = NoResult
            /\ DecodeEnter
            /\ pc' = "decode"
       ELSE /\ pc' = "returned"
            /\ UNCHANGED <<ti, calls, dr, decVars>>
    /\ UNCHANGED <<wsVars, cfgVars, rng, runVars>>

\* Another temperature, and an error or a result that fails the test: the
\* loop goes on, to the next temperature, or past the loop when there is
\* none.
FallbackNext ==
    /\ pc = "attempt" /\ ~IsLast(ti)
    /\ ~(dr.ok /\ Accepts(dr.val))
    /\ IF ti < Len(TEMPERATURES)
       THEN /\ ti' = ti + 1
            /\ calls' = Append(calls, Call(ti + 1))
            /\ dr' = NoResult
            /\ DecodeEnter
            /\ pc' = "decode"
       ELSE /\ pc' = "unreachable"
            /\ UNCHANGED <<ti, calls, dr, decVars>>
    /\ UNCHANGED <<wsVars, cfgVars, rng, runVars>>

(* -------------------------------- run ---------------------------------- *)

\* segment_size without the clamp to the frames that are left.
segment_size_unclamped == N_FRAMES

segment_size == Min(content_frames - seek, N_FRAMES)

\* time_offset taken from the size of the window instead of its start.
time_offset_of_size ==
    Rat(Min(content_frames - seek, N_FRAMES) * HOP_LENGTH, SAMPLE_RATE)

time_offset == Rat(seek * HOP_LENGTH, SAMPLE_RATE)

\* segment_duration as that of a whole window, whatever is left.
segment_duration_whole == Rat(N_FRAMES * HOP_LENGTH, SAMPLE_RATE)

segment_duration == Rat(segment_size * HOP_LENGTH, SAMPLE_RATE)

\* IsSilence testing the compression ratio in place of avg_logprob.
IsSilenceByCompression(r) ==
    /\ FGt(r.no_speech_prob, NO_SPEECH_THRESHOLD)
    /\ FGt(r.compression_ratio, COMPRESSION_RATIO_THRESHOLD)

\* IsSilence with either condition sufficing.
IsSilenceEither(r) ==
    \/ FGt(r.no_speech_prob, NO_SPEECH_THRESHOLD)
    \/ FLt(r.avg_logprob, LOGPROB_THRESHOLD)

\* The test under which run drops the result of a window.
IsSilence(r) ==
    /\ FGt(r.no_speech_prob, NO_SPEECH_THRESHOLD)
    /\ FLt(r.avg_logprob, LOGPROB_THRESHOLD)

\* seek < content_frames: the window is cut and decode_with_fallback calls
\* decode with the first temperature.
RunWindow ==
    /\ pc = "run" /\ seek < content_frames
    /\ windows' = Append(windows, [seek |-> seek, size |-> segment_size])
    /\ ti' = 1
    /\ calls' = <<Call(1)>>
    /\ dr' = NoResult
    /\ DecodeEnter
    /\ pc' = "decode"
    /\ UNCHANGED <<wsVars, cfgVars, rng, seek, segments>>

\* RunFail going on with the next window instead of returning.
RunFailGoesOn ==
    /\ pc = "returned" /\ ~dr.ok
    /\ seek' = seek + segment_size
    /\ calls' = <<>>
    /\ pc' = "run"
    /\ UNCHANGED <<wsVars, cfgVars, rng, segments, windows, ti, dr, decVars>>

\* decode_with_fallback returned Err: the ? operator returns it from run.
RunFail ==
    /\ pc = "returned" /\ ~dr.ok
    /\ pc' = "failed"
    /\ UNCHANGED <<wsVars, cfgVars, rng, runVars, ti, calls, dr, decVars>>

\* decode_with_fallback returned a result that is dropped as silence.
RunSkip ==
    /\ pc = "returned" /\ dr.ok /\ IsSilence(dr.val)
    /\ seek' = seek + segment_size
    /\ calls' = <<>>
    /\ pc' = "run"
    /\ UNCHANGED <<wsVars, cfgVars, rng, segments, windows, ti, dr, decVars>>

\* decode_with_fallback returned a result that becomes a Segment.
RunPush ==
    /\ pc = "returned" /\ dr.ok /\ ~IsSilence(dr.val)
    /\ seek' = seek + segment_size
    /\ segments' = Append(segments, [start |-> time_offset,
                                      duration |-> segment_duration,
                                      dr |-> dr.val])
    /\ calls' = <<>>
    /\ pc' = "run"
    /\ UNCHANGED <<wsVars, cfgVars, rng, windows, ti, dr, decVars>>

\* seek >= content_frames: run returns Ok(segments).
RunReturn ==
    /\ pc = "run" /\ seek >= content_frames
    /\ pc' = "done"
    /\ UNCHANGED <<wsVars, cfgVars, rng, runVars, ti, calls, dr, decVars>>

\* RunResult handing the Segments pushed so far to the caller on a failure.
RunResultPartial ==
    IF pc \in {"done", "failed"} THEN Ok(segments) ELSE NoResult

\* What run has returned to its caller: Ok(segments) from the end of the
\* loop, the Err of decode_with_fallback through the ? operator, and
\* nothing as long as it runs.
RunResult ==
    IF pc = "done" THEN Ok(segments)
    ELSE IF pc = "failed" THEN dr
    ELSE NoResult

RECURSIVE Collect(_)
\* segments.iter().map(|s| s.transcription()).collect::<String>()
Collect(segs) ==
    IF segs = <<>> THEN <<>> ELSE segs[1].dr.text \o Collect(Tail(segs))

\* What transcribe returns: ? on run, then the texts of the Segments.
TranscribeResult ==
    IF RunResult.ok THEN Ok(Collect(RunResult.val)) ELSE RunResult

(* -------------------------- websocket_server --------------------------- *)

\* The payloads of binary messages: two recordings, and bytes that are no
\* WebM audio.
Recordings == {"a", "b"}

Payloads == Recordings \cup {"junk"}

\* The items of the aggregated stream: the AggregatedMessage variants, and
\* Err for a protocol error.
Messages ==
    {[kind |-> "Binary", bin |-> b] : b \in Payloads}
      \cup {[kind |-> k, bin |-> ""] : k \in {"Text", "Ping", "Pong", "Close", "Err"}}

\* audio::pcm_decode(Cursor::new(bin))
pcm_decode(bin) ==
    IF bin \in Recordings THEN Ok(bin) ELSE Err("pcm_decode", bin)

\* The text transcribe makes of the features of a recording.
Transcript(samples) == <<"transcript", samples>>

\* transcription::transcribe(features, &mut sender): what the channel holds
\* after the call, the transcript when it succeeded and nothing when not.
TranscribeSends(samples, succeeded) ==
    IF succeeded THEN <<Transcript(samples)>> ELSE <<>>

\* receiver.try_next(), the sender being alive.
try_next(channel) ==
    IF channel = <<>> THEN Err("try_next", "") ELSE Ok(Head(channel))

\* What the task has done with a message.
Handled(msg, decoded, transcribed) ==
    [msg |-> msg, decoded |-> decoded, transcribed |-> transcribed]

\* Ok(AggregatedMessage::Binary(bin)): the audio is decoded and transcribed
\* and the transcript sent as a text frame; each unwrap that fails ends the
\* task.
WsBinary ==
    /\ task = "running" /\ stream # <<>> /\ Head(stream).kind = "Binary"
    /\ \E features_ok \in BOOLEAN, succeeded \in BOOLEAN :
          LET msg == Head(stream)
              samples == pcm_decode(msg.bin)
              decoded == samples.ok /\ features_ok
              channel == IF decoded
                         THEN TranscribeSends(samples.val, succeeded)
                         ELSE <<>>
              transcription == try_next(channel)
          IN  /\ handled' = Append(handled,
                                   Handled(msg, decoded, decoded /\ succeeded))
              /\ IF decoded /\ transcription.ok
                 THEN /\ session' = Append(session, transcription.val)
                      /\ task' = task
                 ELSE /\ session' = session
                      /\ task' = "panicked"
    /\ stream' = Tail(stream)
    /\ UNCHANGED <<cfgVars, rng, pc, runVars, ti, calls, dr, decVars>>

\* Err(err): the error is logged.
WsErr ==
    /\ task = "running" /\ stream # <<>> /\ Head(stream).kind = "Err"
    /\ handled' = Append(handled, Handled(Head(stream), FALSE, FALSE))
    /\ stream' = Tail(stream)
    /\ UNCHANGED <<task, session, cfgVars, rng, pc, runVars, ti, calls, dr,
                   decVars>>

\* WsOther answering the message with a text frame.
WsOtherReplies ==
    /\ task = "running" /\ stream # <<>>
    /\ Head(stream).kind \in {"Text", "Ping", "Pong", "Close"}
    /\ handled' = Append(handled, Handled(Head(stream), FALSE, FALSE))
    /\ session' = Append(session, <<"transcript", Head(stream).bin>>)
    /\ stream' = Tail(stream)
    /\ UNCHANGED <<task, cfgVars, rng, pc, runVars, ti, calls, dr, decVars>>

\* Any other message: nothing is done.
WsOther ==
    /\ task = "running" /\ stream # <<>>
    /\ Head(stream).kind \in {"Text", "Ping", "Pong", "Close"}
    /\ handled' = Append(handled, Handled(Head(stream), FALSE, FALSE))
    /\ stream' = Tail(stream)
    /\ UNCHANGED <<task, session, cfgVars, rng, pc, runVars, ti, calls, dr,
                   decVars>>

\* stream.next() returns None: the loop and the task end.
WsEnd ==
    /\ task = "running" /\ stream = <<>>
    /\ task' = "ended"
    /\ UNCHANGED <<stream, handled, session, cfgVars, rng, pc, runVars, ti,
                   calls, dr, decVars>>

(* --------------------------- specifications ---------------------------- *)

\* No connection is open.
NoConnection ==
    /\ stream = <<>>
    /\ task = "ended"
    /\ handled = <<>>
    /\ session = <<>>

\* The state when run is entered, after Decoder::new.
Entry ==
    /\ NoConnection
    /\ tokenizer = WhisperTokenizer
    /\ decoder = New(tokenizer, TRUE, seed, language_token)
    /\ rng = seed
    /\ pc = "run"
    /\ seek = 0
    /\ segments = <<>>
    /\ windows = <<>>
    /\ ti = 0
    /\ calls = <<>>
    /\ dr = NoResult
    /\ tokens = <<>>
    /\ sum_logprob = Rat(0, 100)
    /\ no_speech_prob = NaN
    /\ logits = NoLogits
    /\ step = 0
    /\ stopped = FALSE
    /\ rng0 = seed

\* Audio of up to MaxContentFrames frames (up to two windows), decoded as
\* transcribe does, without a language token, by a model of six target
\* positions whose last-position logits favour a word or end-of-transcript.
Init ==
    /\ max_target_positions = 6
    /\ language_token = None
    /\ suppress_tokens = {1}
    /\ content_frames \in 0 .. MaxContentFrames
    /\ model = {Peak(0), Peak(eot_token)}
    /\ first_logits = FirstLogits
    /\ Entry

\* One window, with every small configuration of the model.
InitDecode ==
    /\ max_target_positions \in 0 .. MaxTargetPositions
    /\ language_token \in {None, LANG_TOKEN}
    /\ suppress_tokens \in {{}, {1}}
    /\ content_frames = 1
    /\ model = ModelLogits
    /\ first_logits = FirstLogits
    /\ Entry

Next ==
    \/ RunWindow
    \/ DecodeStep
    \/ DecodeReturn
    \/ DecodeErr
    \/ FallbackLast
    \/ FallbackAccept
    \/ FallbackNext
    \/ RunFail
    \/ RunSkip
    \/ RunPush
    \/ RunReturn

Spec == Init /\ [][Next]_vars

SpecDecode == InitDecode /\ [][Next]_vars

\* Audio of three full windows of identical contents, decoded by a
\* model that is a function of its input and answers every call with the
\* same logits: two words as likely as each other in a window it hears
\* speech in, or end-of-transcript in a window it hears none in.
InitReplay ==
    /\ max_target_positions = 4
    /\ language_token = None
    /\ suppress_tokens = {}
    /\ content_frames = 3 * N_FRAMES
    /\ \/ model = {TwoPeaks} /\ first_logits = {Peak(0)}
       \/ model = {Peak(eot_token)} /\ first_logits = {Peak(no_speech_token)}
    /\ Entry

SpecReplay == InitReplay /\ [][Next]_vars

\* No Decoder is built and nothing is decoded.
Unbuilt ==
    /\ max_target_positions = 6
    /\ suppress_tokens = {1}
    /\ content_frames = 0
    /\ decoder = NoResult
    /\ model = ModelLogits
    /\ first_logits = FirstLogits
    /\ rng = seed
    /\ pc = "new"
    /\ seek = 0
    /\ segments = <<>>
    /\ windows = <<>>
    /\ ti = 0
    /\ calls = <<>>
    /\ dr = NoResult
    /\ tokens = <<>>
    /\ sum_logprob = Rat(0, 100)
    /\ no_speech_prob = NaN
    /\ logits = NoLogits
    /\ step = 0
    /\ stopped = FALSE
    /\ rng0 = seed

\* transcribe before Decoder::new, with every tokenizer.
InitNew ==
    /\ language_token \in {None, LANG_TOKEN}
    /\ tokenizer \in Tokenizers
    /\ Unbuilt
    /\ NoConnection

NextNew == DecoderNew

\* A connection on which up to MaxMessages messages arrive, the task
\* spawned; the peer stays connected, so that session.text succeeds.
InitWs ==
    /\ language_token = None
    /\ tokenizer = WhisperTokenizer
    /\ Unbuilt
    /\ stream \in UNION {[1 .. n -> Messages] : n \in 0 .. MaxMessages}
    /\ task = "running"
    /\ handled = <<>>
    /\ session = <<>>

NextWs ==
    \/ WsBinary
    \/ WsErr
    \/ WsOther
    \/ WsEnd

SpecWs == InitWs /\ [][NextWs]_vars

SpecNew == InitNew /\ [][NextNew]_vars

(* ------------------------------ claims --------------------------------- *)

NLadder == Len(TEMPERATURES)

LastCall == calls[Len(calls)]

\* C1: at every temperature but the last, a successful attempt is returned
\* as the window's result if and only if NOT (compression_ratio >
\* COMPRESSION_RATIO_THRESHOLD OR avg_logprob < LOGPROB_THRESHOLD) OR
\* no_speech_prob > NO_SPEECH_THRESHOLD; otherwise decode is called with the
\* next temperature and nothing is returned.
C1_AcceptIffGates ==
    [][(pc = "attempt" /\ ti < NLadder /\ dr.ok) =>
         IF ~PoorMetrics(dr.val) \/ ConfidentSilence(dr.val)
         THEN pc' = "returned" /\ dr' = dr /\ calls' = calls
         ELSE /\ pc' = "decode" /\ ti' = ti + 1
              /\ calls' = Append(calls, Call(ti + 1))]_vars

\* C1 witness: a result with poor metrics was returned at a temperature
\* other than the last, on the strength of its no-speech probability.
C1_Witness ==
    /\ pc = "returned" /\ ti < NLadder /\ dr.ok
    /\ PoorMetrics(dr.val) /\ ConfidentSilence(dr.val)

\* C2: once an attempt is accepted no attempt at a later temperature is run
\* for the window: when decode_with_fallback has returned, the returned
\* value is that of the last call of decode, no earlier call had returned an
\* acceptable result, and a returned result carries the temperature of that
\* last call; so a first attempt that clears the gates is the only call.
C2_NoAttemptAfterAccept ==
    pc = "returned" =>
        /\ calls # <<>>
        /\ LastCall.done /\ LastCall.ok = dr.ok
        /\ \A i \in 1 .. Len(calls) - 1 :
              calls[i].done /\ ~(calls[i].ok /\ (~calls[i].poor \/ calls[i].silent))
        /\ dr.ok => dr.val.temperature = TEMPERATURES[LastCall.t]
        /\ (calls[1].ok /\ ~calls[1].poor) =>
              (Len(calls) = 1 /\ dr.val.temperature = TEMPERATURES[1])

\* C2 witness: the first attempt cleared the gates and was returned after
\* one call of decode.
C2_Witness ==
    /\ pc = "returned" /\ Len(calls) = 1 /\ dr.ok
    /\ ~PoorMetrics(dr.val) /\ dr.val.temperature = 0
    /\ Len(dr.val.tokens) > Len(PromptPrefix)

\* C3: at the last temperature the outcome of the attempt is returned
\* unchanged, result (no gate is evaluated) or failure; and a failure that
\* decode_with_fallback returns is that of the attempt at the last
\* temperature.
C3_LastReturnedUnchanged ==
    /\ [][(pc = "attempt" /\ ti = NLadder) =>
            (pc' = "returned" /\ dr' = dr /\ calls' = calls)]_vars
    /\ []((pc \in {"returned", "failed"} /\ ~dr.ok) =>
            (dr.val.t = NLadder /\ LastCall.t = NLadder
               /\ LastCall.done /\ ~LastCall.ok))

\* C3 witness: the last temperature returned a result that no gate would
\* have let through.
C3_Witness ==
    /\ pc = "returned" /\ ti = NLadder /\ dr.ok
    /\ PoorMetrics(dr.val) /\ ~ConfidentSilence(dr.val)

\* C4: a failure of decode at a temperature other than the last is not
\* returned: decode is called with the next temperature of the ladder.
C4_FailureSwallowed ==
    [][(pc = "attempt" /\ ti < NLadder /\ ~dr.ok) =>
         (/\ pc' = "decode" /\ ti' = ti + 1
          /\ calls' = Append(calls, Call(ti + 1))
          /\ tokens' = PromptPrefix /\ step' = 0)]_vars

\* C4 witness: decode runs at the second temperature after it failed at the
\* first.
C4_Witness ==
    /\ pc = "decode" /\ ti = 2 /\ Len(calls) = 2
    /\ calls[1].done /\ ~calls[1].ok

\* How far a call of decode_with_fallback has got: the calls of decode
\* made, and within the last one the iterations done, the break and the
\* return.
Progress ==
    Len(calls) * (sample_len + 3)
      + (IF pc = "attempt" THEN sample_len + 2
         ELSE step + (IF stopped THEN 1 ELSE 0))

\* C5: decode_with_fallback ends by returning a result or a failure: decode
\* is called at most once per temperature, in the order of the ladder, the
\* point after the loop is never reached, and while it has not returned
\* the loop of decode runs or decode returns, every Result of decode is
\* returned or followed by another call, and every step either returns or
\* gets further (Progress is bounded, so decode_with_fallback returns).
C5_FallbackTerminates ==
    /\ [](/\ pc # "unreachable"
          /\ Len(calls) <= NLadder
          /\ \A i \in 1 .. Len(calls) : calls[i].t = i
          /\ pc \in {"decode", "attempt"} =>
                /\ ti = Len(calls)
                /\ Progress <= (NLadder + 1) * (sample_len + 3)
          /\ pc = "decode" =>
                \/ ~stopped /\ step < sample_len
                \/ ENABLED DecodeReturn
          /\ pc = "attempt" =>
                ENABLED (FallbackLast \/ FallbackAccept \/ FallbackNext))
    /\ [][(pc \in {"decode", "attempt"}) =>
            \/ pc' = "returned"
            \/ pc' \in {"decode", "attempt"} /\ Progress' > Progress]_vars

\* C5 witness: decode_with_fallback returned after one call of decode per
\* temperature of the ladder.
C5_Witness ==
    /\ pc = "returned" /\ Len(calls) = NLadder
    /\ \A i \in 1 .. NLadder : calls[i].done

Ceil(a, b) == (a + b - 1) \div b

\* C6: every iteration of the loop of run that completes moves seek up, by
\* a window of at least one frame, so that the loop runs at most
\* ceil(content_frames / N_FRAMES) times: not at all, leaving the Segment
\* list empty, when content_frames = 0; and seek = content_frames when run
\* returns its Segment list.
C6_SeekProgress ==
    /\ [][(pc = "returned" /\ pc' = "run") =>
            (seek' > seek /\ seek' <= content_frames)]_vars
    /\ [][(pc = "run" /\ pc' = "decode") =>
            (seek < content_frames /\ windows'[Len(windows')].size >= 1
               /\ Len(windows') = Len(windows) + 1)]_vars
    /\ [](/\ Len(windows) <= Ceil(content_frames, N_FRAMES)
          /\ content_frames = 0 => (windows = <<>> /\ segments = <<>>)
          /\ pc = "done" => seek = content_frames)

\* C6 witness: run returned its Segment list after as many iterations as
\* the bound allows, two of them.
C6_Witness ==
    /\ pc = "done" /\ Len(windows) = 2
    /\ Len(windows) = Ceil(content_frames, N_FRAMES)

\* C7: a window whose returned result has no_speech_prob >
\* NO_SPEECH_THRESHOLD and avg_logprob < LOGPROB_THRESHOLD adds no Segment
\* and seek still moves by the whole window; a window with any other
\* result adds exactly one Segment, its own.
C7_SilenceSkipped ==
    [][(pc = "returned" /\ dr.ok) =>
         LET r == dr.val
             w == windows[Len(windows)]
             silent == /\ FGt(r.no_speech_prob, NO_SPEECH_THRESHOLD)
                       /\ FLt(r.avg_logprob, LOGPROB_THRESHOLD)
         IN  /\ pc' = "run"
             /\ seek' = seek + w.size
             /\ w.seek = seek
             /\ w.size = Min(content_frames - seek, N_FRAMES)
             /\ silent => segments' = segments
             /\ ~silent => /\ Len(segments') = Len(segments) + 1
                            /\ SubSeq(segments', 1, Len(segments)) = segments
                            /\ segments'[Len(segments')].dr = r]_vars

\* C7 witness: the first window was dropped as silence and seek is past it.
C7_Witness ==
    /\ pc = "run" /\ Len(windows) = 1 /\ seek = windows[1].size
    /\ segments = <<>> /\ dr.ok
    /\ FGt(dr.val.no_speech_prob, NO_SPEECH_THRESHOLD)
    /\ FLt(dr.val.avg_logprob, LOGPROB_THRESHOLD)

\* C8 as claimed: a failure of one window does not keep run from decoding
\* the windows after it, so that whenever run has returned every window of
\* the audio has been handed to decode_with_fallback.
C8_LaterWindowsDecoded ==
    pc \in {"done", "failed"} => Len(windows) = Ceil(content_frames, N_FRAMES)

\* C8 as amended: a failure returned by decode_with_fallback for a window
\* ends run at once with that failure; seek, the Segment list and the
\* windows decoded stay as they are and nothing is decoded after it.
C8_FailureAbortsRun ==
    /\ [][(pc = "returned" /\ ~dr.ok) =>
            (pc' = "failed" /\ dr' = dr
               /\ UNCHANGED <<seek, segments, windows>>)]_vars
    /\ [][pc # "failed"]_vars
    /\ [](pc = "failed" => (~dr.ok /\ seek = windows[Len(windows)].seek))

\* C8 witness: run has failed on its first window while a second window of
\* the audio was left.
C8_Witness ==
    /\ pc = "failed" /\ Len(windows) = 1
    /\ seek + segment_size < content_frames

\* C9: at every point of run the start times of the Segment list increase
\* strictly, so the texts in list order are in chronological order.
C9_SegmentsChronological ==
    \A i, j \in 1 .. Len(segments) :
        i < j => FLt(segments[i].start, segments[j].start)

\* C9 witness: two Segments in the list, of two windows.
C9_Witness ==
    /\ Len(segments) = 2
    /\ segments[2].start = Rat(windows[2].seek * HOP_LENGTH, SAMPLE_RATE)

\* C10 as claimed: the token sequence of every result of decode has at most
\* max_target_positions tokens, whatever max_target_positions is and with
\* or without a language token.
C10_TokensWithinMax ==
    dr.ok => Len(dr.val.tokens) <= max_target_positions

\* The tokens decode has appended after the prompt prefix.
Generated(toks) == SubSeq(toks, Len(PromptPrefix) + 1, Len(toks))

\* An iteration of decode at temperature 0 has chosen a token.
GreedyChosen ==
    /\ pc = "decode" /\ TEMPERATURES[ti] = 0
    /\ Len(tokens) > Len(PromptPrefix)

\* C11 as claimed: at temperature 0 the token chosen is an index of the
\* maximum masked logit, and the lowest such index when several share the
\* maximum.
C11_FirstMaxChosen ==
    GreedyChosen =>
        LET chosen == tokens[Len(tokens)]
        IN  \A j \in Vocab : /\ logits[j] <= logits[chosen]
                              /\ (logits[j] = logits[chosen] => chosen <= j)

\* C11 as amended: at temperature 0 the token chosen is an index of the
\* maximum masked logit, and the highest such index when several share the
\* maximum.
C11_LastMaxChosen ==
    GreedyChosen =>
        LET chosen == tokens[Len(tokens)]
        IN  \A j \in Vocab : /\ logits[j] <= logits[chosen]
                              /\ (logits[j] = logits[chosen] => j <= chosen)

\* C11 witness: two ids shared the maximum masked logit at temperature 0
\* and the higher one was chosen.
C11_Witness ==
    /\ GreedyChosen
    /\ logits[0] = logits[1] /\ logits[1] = HighLogit
    /\ tokens[Len(tokens)] = 1

\* The results of decode at temperature 0 that run has made Segments.
GreedySegments == {i \in 1 .. Len(segments) : segments[i].dr.temperature = 0}

\* C12: two calls of decode at temperature 0 on windows of identical
\* contents, with the same model and tokenizer, return the same tokens and
\* the same text, whatever attempts the Decoder ran between them: every
\* result of temperature 0 agrees with every Segment of temperature 0.
C12_GreedyDeterministic ==
    /\ \A i, j \in GreedySegments :
          /\ segments[i].dr.tokens = segments[j].dr.tokens
          /\ segments[i].dr.text = segments[j].dr.text
    /\ (pc = "attempt" /\ dr.ok /\ dr.val.temperature = 0) =>
          \A i \in GreedySegments :
              /\ segments[i].dr.tokens = dr.val.tokens
              /\ segments[i].dr.text = dr.val.text

\* C12 witness: the first and the third window were decoded at temperature
\* 0 into words, and the second by an attempt that drew from the generator.
C12_Witness ==
    /\ Len(segments) = 3
    /\ segments[1].dr.temperature = 0 /\ segments[3].dr.temperature = 0
    /\ segments[2].dr.temperature > 0
    /\ segments[3].dr.text # <<>>
    /\ rng # seed

\* C13 as claimed: attempts at the same temperature t > 0 on windows of
\* identical contents with the same model make the same draws and so return
\* the same tokens, also when the same Decoder makes them one after another.
C13_SameTemperatureSameTokens ==
    \A i, j \in 1 .. Len(segments) :
        (/\ segments[i].dr.temperature > 0
         /\ segments[i].dr.temperature = segments[j].dr.temperature)
            => segments[i].dr.tokens = segments[j].dr.tokens

RECURSIVE Stream(_, _)
\* The next n values of the generator's stream from the state s.
Stream(s, n) ==
    IF n = 0 THEN <<>> ELSE <<NextRng(s)>> \o Stream(NextRng(s), n - 1)

\* C13 as amended: the draws of an attempt at a temperature t > 0 are the
\* next values of the generator's stream from its state at the entry of
\* decode, one per token, so that attempts that start from the same state of
\* the generator (as the first sampling attempt of every Decoder built with
\* the same seed does) on the same window with the same model make the same
\* draws and return the same tokens; the generator is left where the last
\* draw put it, for the next attempt of the Decoder to go on from.
C13_DrawsFollowEntryState ==
    /\ (pc = "decode" /\ TEMPERATURES[ti] > 0) =>
          LET n == Len(Generated(tokens))
              draws == Stream(rng0, n)
              masked == BroadcastAdd(CHOOSE l \in model : TRUE,
                                     SuppressTensor(suppress_tokens))
          IN  /\ rng = IF n = 0 THEN rng0 ELSE draws[n]
              /\ \A k \in 1 .. n :
                    Generated(tokens)[k] =
                        Pick(TempWeights(masked, TEMPERATURES[ti]), draws[k])
    /\ (pc = "decode" /\ Len(windows) = 1 /\ ti = 2) => rng0 = seed

\* C13 witness: a later sampling attempt of the Decoder, entered with the
\* generator away from its seed, has drawn two tokens.
C13_Witness ==
    /\ pc = "decode" /\ TEMPERATURES[ti] > 0
    /\ Len(windows) = 2 /\ rng0 # seed
    /\ Len(Generated(tokens)) = 2
    /\ model = {TwoPeaks}

\* C14: with finite raw logits and some id of the vocabulary that is not
\* suppressed, no id of config.suppress_tokens is chosen as next token, at
\* temperature 0 or above: every token after the prompt prefix, of the
\* attempt that runs and of every result, is an id that is not suppressed.
C14_SuppressedNeverChosen ==
    /\ \A k \in 1 .. Len(Generated(tokens)) :
          Generated(tokens)[k] \notin suppress_tokens
    /\ dr.ok =>
          \A k \in 1 .. Len(Generated(dr.val.tokens)) :
              Generated(dr.val.tokens)[k] \notin suppress_tokens

\* C14 witness: the model's logits favoured the suppressed id, at a
\* temperature above 0, and another id was drawn.
C14_Witness ==
    /\ pc = "decode" /\ TEMPERATURES[ti] > 0
    /\ suppress_tokens = {1}
    /\ Len(tokens) > Len(PromptPrefix)
    /\ logits = BroadcastAdd(Peak(1), SuppressTensor({1}))
    /\ tokens[Len(tokens)] # 1

\* a <= b on f64: false as soon as one side is NaN.
FLe(a, b) ==
    \/ a.k = "rat" /\ b.k = "rat" /\ a.n * b.d <= b.n * a.d
    \/ a.k = "ninf" /\ b.k # "nan"

\* C15: the avg_logprob of every result of decode is <= 0 (and is not
\* NaN), and so is that of every result decode_with_fallback returns and of
\* every Segment: the sum of the logarithms accumulated is <= 0 at every
\* point of decode and it is divided by a positive number of tokens.
C15_AvgLogprobNonPositive ==
    /\ dr.ok => (FLe(dr.val.avg_logprob, Rat(0, 1)) /\ Len(dr.val.tokens) > 0)
    /\ FLe(sum_logprob, Rat(0, 1))
    /\ \A i \in 1 .. Len(segments) :
          FLe(segments[i].dr.avg_logprob, Rat(0, 1))

\* C15 witness: a Segment whose avg_logprob is below 0, two tokens having
\* been chosen with a probability below 1.
C15_Witness ==
    /\ Len(segments) = 1
    /\ FLt(segments[1].dr.avg_logprob, Rat(0, 1))
    /\ Len(Generated(segments[1].dr.tokens)) >= 2

\* The names Decoder::new looks up with `?`.
RequiredNames == {SOT_TOKEN, TRANSCRIBE_TOKEN, EOT_TOKEN, NO_TIMESTAMPS_TOKEN}

\* The positions of NO_SPEECH_TOKENS whose name the tokenizer has.
Resolving ==
    {i \in 1 .. Len(NO_SPEECH_TOKENS) : tokenizer[NO_SPEECH_TOKENS[i]] # None}

\* C16: Decoder::new returns a failure, and no Decoder, when one of the
\* start-of-transcript, transcribe, end-of-transcript and no-timestamps
\* names has no id in the tokenizer; the no-speech token of a Decoder is the
\* id of the first name of NO_SPEECH_TOKENS that has one (its other tokens
\* are the ids of their names); and Decoder::new fails on the no-speech
\* token only when no name of the list has an id, which it does whenever
\* the four other names have theirs and nothing else fails.
C16_NewResolvesTokens ==
    pc \in {"built", "new_failed"} =>
        /\ (pc = "built") = decoder.ok
        /\ (\E n \in RequiredNames : tokenizer[n] = None) => ~decoder.ok
        /\ decoder.ok =>
              /\ Resolving # {}
              /\ \E i \in Resolving :
                    /\ \A j \in Resolving : i <= j
                    /\ decoder.val.no_speech_token = tokenizer[NO_SPEECH_TOKENS[i]]
              /\ decoder.val.sot_token = tokenizer[SOT_TOKEN]
              /\ decoder.val.transcribe_token = tokenizer[TRANSCRIBE_TOKEN]
              /\ decoder.val.eot_token = tokenizer[EOT_TOKEN]
              /\ decoder.val.no_timestamps_token = tokenizer[NO_TIMESTAMPS_TOKEN]
        /\ (~decoder.ok /\ decoder.val.cause = "unable to find any non-speech token")
              => Resolving = {}
        /\ (/\ Resolving = {}
            /\ \A n \in RequiredNames : tokenizer[n] # None
            /\ ~decoder.ok /\ decoder.val.cause # "Tensor::new")
              => decoder.val.cause = "unable to find any non-speech token"

\* C16 witness: a Decoder was built with a tokenizer that has both names of
\* NO_SPEECH_TOKENS, and its no-speech token is the id of the first.
C16_Witness ==
    /\ pc = "built"
    /\ Resolving = {1, 2}
    /\ tokenizer[NO_SPEECH_TOKENS[1]] # tokenizer[NO_SPEECH_TOKENS[2]]
    /\ decoder.val.no_speech_token = tokenizer[NO_SPEECH_TOKENS[1]]

RECURSIVE Transcripts(_)
\* The transcripts of the binary messages of a log that were decoded and
\* transcribed, in the order of the log.
Transcripts(log) ==
    IF log = <<>> THEN <<>>
    ELSE LET h == log[Len(log)]
         IN  Transcripts(SubSeq(log, 1, Len(log) - 1))
               \o (IF h.msg.kind = "Binary" /\ h.decoded /\ h.transcribed
                   THEN <<Transcript(h.msg.bin)>>
                   ELSE <<>>)

C18_StopTokenCounted ==
    [][(pc = "decode" /\ Len(tokens') = Len(tokens) + 1) =>
         sum_logprob' =
             FAdd(sum_logprob, FLn(Softmax(logits', tokens'[Len(tokens')])))]_vars

\* C19: decode stops at the first end-of-transcript: among the tokens
\* after the prompt prefix, of the attempt that runs and of every result,
\* end-of-transcript occurs only as the last one, so at most once, and they
\* are never more than max_target_positions / 2; after end-of-transcript
\* no iteration follows.
C19_StopsAtEot ==
    LET EotLast(toks) ==
            LET g == Generated(toks)
            IN  /\ \A k \in 1 .. Len(g) : g[k] = eot_token => k = Len(g)
                /\ Len(g) <= max_target_positions \div 2
    IN  /\ pc = "decode" => EotLast(tokens)
        /\ dr.ok => EotLast(dr.val.tokens)
        /\ (/\ pc = "decode" /\ Len(tokens) > Len(PromptPrefix)
            /\ tokens[Len(tokens)] = eot_token) => stopped

\* C19 witness: a result of max_target_positions / 2 tokens after the
\* prefix, two words and then end-of-transcript.
C19_Witness ==
    /\ dr.ok
    /\ Len(Generated(dr.val.tokens)) = 3
    /\ max_target_positions \div 2 = 3
    /\ Generated(dr.val.tokens)[3] = eot_token

\* C20: the compression_ratio of every result is NaN, so that the test
\* compression_ratio > COMPRESSION_RATIO_THRESHOLD is false for it, an
\* attempt is followed by one at the next temperature only when its
\* avg_logprob < LOGPROB_THRESHOLD, and a result whose avg_logprob is not
\* below LOGPROB_THRESHOLD is returned.
C20_CompressionGateIdle ==
    /\ [](dr.ok => /\ dr.val.compression_ratio = NaN
                    /\ ~FGt(dr.val.compression_ratio,
                            COMPRESSION_RATIO_THRESHOLD))
    /\ [](\A i \in 1 .. Len(segments) :
              segments[i].dr.compression_ratio = NaN)
    /\ [][(pc = "attempt" /\ dr.ok /\ pc' = "decode") =>
            FLt(dr.val.avg_logprob, LOGPROB_THRESHOLD)]_vars
    /\ [][(pc = "attempt" /\ dr.ok
              /\ ~FLt(dr.val.avg_logprob, LOGPROB_THRESHOLD)) =>
            (pc' = "returned" /\ dr' = dr)]_vars

\* C20 witness: a result above LOGPROB_THRESHOLD was returned at the first
\* temperature, its compression_ratio NaN.
C20_Witness ==
    /\ pc = "returned" /\ dr.ok /\ ti = 1
    /\ dr.val.compression_ratio = NaN
    /\ FGt(dr.val.avg_logprob, LOGPROB_THRESHOLD)
    /\ Len(Generated(dr.val.tokens)) >= 2

\* C21: every Segment whose result was accepted at a temperature other
\* than the last has avg_logprob >= LOGPROB_THRESHOLD; a result that a
\* temperature other than the last let through only because no_speech_prob
\* > NO_SPEECH_THRESHOLD (its avg_logprob being below LOGPROB_THRESHOLD) is
\* dropped by run and adds no Segment.
C21_EarlySegmentsAboveThreshold ==
    /\ \A i \in 1 .. Len(segments) :
          segments[i].dr.temperature # TEMPERATURES[NLadder] =>
              FLe(LOGPROB_THRESHOLD, segments[i].dr.avg_logprob)
    /\ (/\ pc = "run" /\ dr.ok
        /\ dr.val.temperature # TEMPERATURES[NLadder]
        /\ FLt(dr.val.avg_logprob, LOGPROB_THRESHOLD)) =>
          /\ FGt(dr.val.no_speech_prob, NO_SPEECH_THRESHOLD)
          /\ \A i \in 1 .. Len(segments) : segments[i].dr # dr.val

\* C21 witness: a result below LOGPROB_THRESHOLD was let through at a
\* temperature other than the last by its no-speech probability, and run
\* has dropped it: no Segment for the window.
C21_Witness ==
    /\ pc = "run" /\ dr.ok /\ Len(windows) = 1 /\ seek > 0
    /\ dr.val.temperature > 0
    /\ dr.val.temperature # TEMPERATURES[NLadder]
    /\ FLt(dr.val.avg_logprob, LOGPROB_THRESHOLD)
    /\ FGt(dr.val.no_speech_prob, NO_SPEECH_THRESHOLD)
    /\ segments = <<>>

\* The frames covered by the first n windows.
RECURSIVE Covered(_)
Covered(n) == IF n = 0 THEN 0 ELSE windows[n].size + Covered(n - 1)

\* C22: the windows of run follow one another from frame 0 without gap or
\* overlap, each of N_FRAMES frames except that the last of a completed
\* run may have fewer, but at least one; when run returns its list the
\* sizes add up to content_frames; and every Segment has the start and the
\* duration of one of the windows: seek and size times HOP_LENGTH over
\* SAMPLE_RATE.
C22_WindowsPartitionFrames ==
    /\ \A i \in 1 .. Len(windows) :
          /\ windows[i].seek = Covered(i - 1)
          /\ windows[i].size \in 1 .. N_FRAMES
          /\ i < Len(windows) => windows[i].size = N_FRAMES
          /\ windows[i].seek + windows[i].size <= content_frames
    /\ pc = "done" => Covered(Len(windows)) = content_frames
    /\ \A k \in 1 .. Len(segments) :
          \E i \in 1 .. Len(windows) :
              /\ segments[k].start =
                    Rat(windows[i].seek * HOP_LENGTH, SAMPLE_RATE)
              /\ segments[k].duration =
                    Rat(windows[i].size * HOP_LENGTH, SAMPLE_RATE)

\* C22 witness: run returned after a whole window and a last one of fewer
\* frames, each with its Segment.
C22_Witness ==
    /\ pc = "done" /\ Len(windows) = 2 /\ Len(segments) = 2
    /\ windows[2].seek = N_FRAMES
    /\ windows[2].size < N_FRAMES
    /\ segments[2].duration = Rat(windows[2].size * HOP_LENGTH, SAMPLE_RATE)

\* C23: run returns the Segment list of all the windows or a failure,
\* never the list of some of them: after a failure of decode_with_fallback
\* run has returned that failure, seek is still at the start of the window
\* that failed, and neither run nor transcribe hands out the Segments of
\* the windows before it; a list is returned only when the windows decoded
\* cover all the frames, and it holds every Segment pushed.
C23_ListOrFailure ==
    /\ pc = "failed" =>
          /\ ~RunResult.ok /\ ~TranscribeResult.ok
          /\ RunResult = dr /\ TranscribeResult = dr
          /\ dr.val.cause # "none"
          /\ Len(windows) >= 1
          /\ seek = windows[Len(windows)].seek
          /\ seek < content_frames
    /\ RunResult.ok =>
          /\ pc = "done"
          /\ RunResult.val = segments
          /\ seek = content_frames
          /\ Covered(Len(windows)) = content_frames
          /\ TranscribeResult = Ok(Collect(segments))

\* C23 witness: the second window failed after the first had given a
\* Segment with text; run and transcribe returned the failure.
C23_Witness ==
    /\ pc = "failed" /\ Len(windows) = 2 /\ Len(segments) = 1
    /\ segments[1].dr.text # <<>>
    /\ seek = N_FRAMES
    /\ ~TranscribeResult.ok

\* C24: the generator of the Decoder starts from the seed given to
\* Decoder::new and changes only in an iteration of decode at a temperature
\* t > 0 that pushes a token, by exactly one draw; an iteration at
\* temperature 0 leaves it as it is, so that during an attempt at 0 it is
\* what it was when decode was entered; and no step between attempts or
\* between windows puts it back or changes it in any other way.
C24_RngMovesOnlyWhenSampling ==
    /\ rng = seed /\ decoder.ok /\ decoder.val.rng = seed
    /\ [][/\ rng' # rng =>
               /\ pc = "decode" /\ pc' = "decode"
               /\ TEMPERATURES[ti] > 0
               /\ tokens' = Append(tokens, tokens'[Len(tokens')])
               /\ rng' = NextRng(rng)
          /\ (pc = "decode" /\ Len(tokens') = Len(tokens) + 1) =>
               rng' = IF TEMPERATURES[ti] > 0 THEN NextRng(rng) ELSE rng
          /\ (pc # "decode" \/ pc' # "decode") => rng' = rng]_vars
    /\ []((pc = "decode" /\ TEMPERATURES[ti] = 0) => rng = rng0)

\* C24 witness: in the second window an attempt at temperature 0 has
\* pushed tokens and the generator is where the draws of the first window
\* left it, away from the seed.
C24_Witness ==
    /\ pc = "decode" /\ TEMPERATURES[ti] = 0
    /\ Len(windows) = 2
    /\ Len(Generated(tokens)) >= 1
    /\ rng # seed /\ rng = rng0

====
